---- MODULE Spec2Model ----
(***************************************************************************)
(* Model of advent_of_code_hhoppe (src/advent_of_code_hhoppe/__init__.py): *)
(* the Advent registry, Puzzle construction with its input/answer fallback *)
(* chains, PuzzlePart.compute / Puzzle.verify and Advent.show_times.       *)
(*                                                                         *)
(* Text (Python str) is a sequence of one-character strings.  An optional  *)
(* value (Python `x | None`) is None == <<>> or Some(v) == <<v>>.          *)
(* A float is a record [neg, mag]: sign bit and magnitude in clock ticks,  *)
(* so that the never-ran sentinel -0.0 differs from a measured 0.0.        *)
(*                                                                         *)
(* The program is single-threaded: `pc` is the position of its one thread  *)
(* ("idle" between calls, "loop" / "run" / "reconcile" inside compute) and *)
(* `call` keeps the arguments and locals of the call in flight, together   *)
(* with what the part held when the call began and counts of what the call *)
(* has done so far (runs, reconciliations, submissions).                   *)
(*                                                                         *)
(* Advent.show_times is a second frame, `show`, with positions "day" /     *)
(* "part" / "cell"; the compute it calls runs in `call` and returns to it. *)
(*                                                                         *)
(* Not modelled: Puzzle.print_summary (only under IPython, output only)    *)
(* and the tar_url branch of Advent.__post_init__ (it only derives the two *)
(* templates).  The aocd backend is the environment: whether it has an     *)
(* input to give, which parts it marks answered, and whether it takes a    *)
(* submission.                                                             *)
(*                                                                         *)
(* Spec runs construction, verify and compute on the fixtures of one day;  *)
(* SpecConstruct runs construction alone under every configuration and     *)
(* every content of the locations it reads; SpecTimes runs the registry of *)
(* two days with verify, compute and show_times.                           *)
(***************************************************************************)
EXTENDS Integers, Sequences, FiniteSets, TLC

\* ------------------------------------------------------------------ bounds
MaxOps == 3        \* top-level calls (puzzle / verify / compute / show_times) per behaviour
MaxRepeat == 2     \* largest `repeat` argument tried

\* ------------------------------------------------------------ basic values
None == <<>>
Some(v) == <<v>>
Val(opt) == opt[1]

Year == 2017
Days == {3, 5}
Parts == {1, 2}

NegZero == [neg |-> TRUE, mag |-> 0]
Secs(t) == [neg |-> FALSE, mag |-> t]
\* Measured run times (time.monotonic() differences): a fast and a slow run.
Durations == {Secs(0), Secs(1)}
Repeats == 0..MaxRepeat

\* ------------------------------------------------------------------- text
DigitChar(d) ==
  CASE d = 0 -> "0" [] d = 1 -> "1" [] d = 2 -> "2" [] d = 3 -> "3"
    [] d = 4 -> "4" [] d = 5 -> "5" [] d = 6 -> "6" [] d = 7 -> "7"
    [] d = 8 -> "8" [] d = 9 -> "9"

IsDigit(c) == c \in {"0", "1", "2", "3", "4", "5", "6", "7", "8", "9"}

DigitVal(c) ==
  CASE c = "0" -> 0 [] c = "1" -> 1 [] c = "2" -> 2 [] c = "3" -> 3
    [] c = "4" -> 4 [] c = "5" -> 5 [] c = "6" -> 6 [] c = "7" -> 7
    [] c = "8" -> 8 [] c = "9" -> 9

RECURSIVE NatStr(_)
NatStr(n) == IF n < 10 THEN <<DigitChar(n)>>
             ELSE NatStr(n \div 10) \o <<DigitChar(n % 10)>>

\* repr() in place of str(): a str result keeps its quotes.
Repr(raw) ==
  IF raw.type = "str" THEN <<"'">> \o raw.s \o <<"'">>
  ELSE IF raw.v < 0 THEN <<"-">> \o NatStr(-raw.v) ELSE NatStr(raw.v)

\* str(raw_result) for the two accepted result types.
Str(raw) ==
  IF raw.type = "str" THEN raw.s
  ELSE IF raw.v < 0 THEN <<"-">> \o NatStr(-raw.v) ELSE NatStr(raw.v)

\* A type check that lets every value through.
IsAnything(raw) == TRUE

\* isinstance(raw_result, (str, numbers.Integral))
IsStrOrIntegral(raw) == raw.type \in {"str", "int"}

EndsWithNewline(s) == Len(s) > 0 /\ s[Len(s)] = "\n"

\* int() of a run of decimal digits.
RECURSIVE ParseInt(_)
ParseInt(ds) == IF Len(ds) = 0 THEN 0
                ELSE 10 * ParseInt(SubSeq(ds, 1, Len(ds) - 1)) + DigitVal(ds[Len(ds)])

\* The longest run of digits at the start of s (greedy \d+).
RECURSIVE LeadingDigits(_)
LeadingDigits(s) == IF Len(s) > 0 /\ IsDigit(s[1])
                    THEN <<s[1]>> \o LeadingDigits(Tail(s))
                    ELSE <<>>

\* re.match(r'day(\d+)', func_name): None, or Some(int(group 1)).
MatchDay(name) ==
  IF Len(name) >= 4 /\ SubSeq(name, 1, 3) = <<"d", "a", "y">>
     /\ IsDigit(name[4])
  THEN Some(ParseInt(LeadingDigits(SubSeq(name, 4, Len(name)))))
  ELSE None

\* ---------------------------------------------------------------- solvers
\* A solver is a callable: `name` is its own __name__ (None when it has
\* none, as for a functools.partial object), `wraps` is the __name__ of its
\* `.func` attribute when it has one (functools.partial), and `beh` is the
\* set of outcomes one invocation can have.
\* A returned value: `v` is the number of an int or float, `s` the text of a str.
IntV(n) == [type |-> "int", v |-> n, s |-> <<>>]
StrV(s) == [type |-> "str", v |-> 0, s |-> s]
FloatV(n) == [type |-> "float", v |-> n, s |-> <<>>]
Ret(raw) == [kind |-> "return", raw |-> raw]
Raises == [kind |-> "raise", raw |-> IntV(0)]

Solver(name, wraps, beh) == [name |-> name, wraps |-> wraps, beh |-> beh]

N_day5 == <<"d", "a", "y", "5">>
N_day05_b == <<"d", "a", "y", "0", "5", "_", "b">>
N_day3 == <<"d", "a", "y", "3">>
N_day55 == <<"d", "a", "y", "5", "5">>
N_myday3 == <<"m", "y", "d", "a", "y", "3">>
N_lambda == <<"<", "l", "a", "m", "b", "d", "a", ">">>

Funcs ==
  { Solver(Some(N_day5), None, {Ret(IntV(7))}),
    Solver(Some(N_day05_b), None, {Ret(StrV(<<"7">>))}),
    Solver(Some(N_lambda), None, {Ret(IntV(7)), Ret(IntV(12))}),
    Solver(Some(N_myday3), None, {Ret(FloatV(7))}),
    Solver(None, Some(N_day5), {Raises}),
    Solver(None, Some(N_day3), {Ret(IntV(7))}),
    Solver(Some(N_day55), None, {Ret(IntV(7))}) }

Outcomes == UNION {f.beh : f \in Funcs}

\* ------------------------------------------------------------ environment
\* Location templates (Advent.input_url / Advent.answer_url); "" is unset.
InputTemplate == "{year}_{day:02d}_input.txt"
AnswerTemplate == "{year}_{day:02d}{part_letter}_answer.txt"

PartLetter(part) == IF part = 1 THEN "a" ELSE "b"

\* str.format of a template: the location it names.
FormatInput(template, year, day) ==
  [template |-> template, year |-> year, day |-> day, part_letter |-> ""]
FormatAnswer(template, year, day, part) ==
  [template |-> template, year |-> year, day |-> day, part_letter |-> PartLetter(part)]

InputTexts == {<<>>, <<"x", "\n">>}
AnswerTexts == {<<"7">>}
BackendInputs == {<<"y">>, <<"y", "\n">>}

\* What the one construction can find at the locations it may read:
\* None is a missing file / HTTP error, Some(t) is content t.
Locations(day) ==
  {FormatInput(InputTemplate, Year, day)}
    \cup {FormatAnswer(AnswerTemplate, Year, day, p) : p \in Parts}

FileSystems(day) ==
  { fs \in [Locations(day) -> {None} \cup {Some(t) : t \in InputTexts \cup AnswerTexts}] :
      /\ fs[FormatInput(InputTemplate, Year, day)] \in {None} \cup {Some(t) : t \in InputTexts}
      /\ \A p \in Parts :
           fs[FormatAnswer(AnswerTemplate, Year, day, p)]
             \in {None} \cup {Some(t) : t \in AnswerTexts} }

\* _read_contents followed by .decode(): None stands for the HTTPError /
\* FileNotFoundError that the callers suppress.
ReadContents(fs, url) == fs[url]

\* The value adventofcode.com accepts for a part.
AcceptedAnswer(day, part) == IF part = 1 THEN <<"7">> ELSE <<"1", "2">>

\* ------------------------------------------------------------------ state
VARIABLES
  advent,     \* Advent configuration: input_url, answer_url, use_aocd
  puzzles,    \* Advent.puzzles: day -> [input, parts]; parts: part -> PuzzlePart
  answered,   \* backend: <<day, part>> -> is the part marked answered
  pc,         \* position of the one thread of control
  call,       \* the call in flight, or the last one made
  patched,    \* targets currently replaced by unittest.mock.patch
  out,        \* lines the call has written to the real stdout
  err,        \* exception the last call ended with
  nops,       \* top-level calls made so far
  show        \* Advent.show_times: the call in flight, or the last one made

vars == <<advent, puzzles, answered, pc, call, patched, out, err, nops, show>>

NoError == [exc |-> "none", what |-> "", actual |-> None, expected |-> None]
Error(exc, what) == [exc |-> exc, what |-> what, actual |-> None, expected |-> None]

\* PuzzlePart(advent, day, part): dataclass defaults.
NewPart == [answer |-> None, func |-> None, elapsed_time |-> NegZero]

NoCall ==
  [op |-> "none", day |-> 0, part |-> 0, silent |-> FALSE, repeat |-> 0,
   i |-> 0, elapsed_times |-> <<>>, raw_result |-> None, result |-> None,
   runs |-> 0, reconciled |-> 0, submits |-> 0,
   answer0 |-> None, func0 |-> None, elapsed0 |-> NegZero, arg |-> None,
   consulted |-> <<>>, caller |-> ""]

SilentTargets == {"sys.stdout", "sys.stderr", "IPython.display.display"}

\* The frame of Advent.show_times: its arguments, the days still to visit,
\* the day and part it is at, the line `s` being built, `total`, the lines
\* printed so far, the parts it has called compute on, and whether the
\* grand total has been printed.
NoShow ==
  [recompute |-> FALSE, repeat |-> 0, days |-> <<>>, day |-> 0, part |-> 0,
   s |-> <<>>, total |-> Secs(0), lines |-> <<>>, computed |-> {},
   done |-> FALSE]

Init ==
  /\ advent \in [input_url : {"", InputTemplate},
                 answer_url : {"", AnswerTemplate},
                 use_aocd : BOOLEAN]
  /\ puzzles = <<>>
  /\ \E b \in BOOLEAN : answered = [k \in Days \X Parts |-> b /\ advent.use_aocd]
  /\ pc = "idle"
  /\ call = NoCall
  /\ patched = {}
  /\ out = <<>>
  /\ err = NoError
  /\ nops = 0
  /\ show = NoShow

\* ----------------------------------------------------- Puzzle construction
\* One entry of call.consulted: a candidate source that was asked, and what
\* it gave (None: nothing; for the backend's input, None: the lookup raised).
Asked(src, part, got) == [src |-> src, part |-> part, got |-> got]

\* The input_url candidate read even when an input was supplied.
InputFromUrlAlways(input, fs, day) ==
  IF advent.input_url # ""
  THEN LET url == FormatInput(advent.input_url, Year, day)
           got == ReadContents(fs, url)
       IN  [input |-> IF got # None THEN Val(got) ELSE input,
            consulted |-> <<Asked("input_url", 0, got)>>]
  ELSE [input |-> input, consulted |-> <<>>]

\* Lines 105-108: the input_url candidate, tried when no input was supplied.
InputFromUrl(input, fs, day) ==
  IF input = <<>> /\ advent.input_url # ""
  THEN LET url == FormatInput(advent.input_url, Year, day)
           got == ReadContents(fs, url)
       IN  [input |-> IF got # None THEN Val(got) ELSE input,
            consulted |-> <<Asked("input_url", 0, got)>>]
  ELSE [input |-> input, consulted |-> <<>>]

\* Lines 109-113: the backend candidate; `bi` is what puz.input_data gives
\* (None: the backend has no input to give and raises its own error).
InputFromAocd(input, bi) ==
  IF input = <<>> /\ advent.use_aocd
  THEN [input |-> IF bi = None THEN input
                  ELSE IF EndsWithNewline(Val(bi)) THEN Val(bi)
                  ELSE Val(bi) \o <<"\n">>,
        raised |-> bi = None,
        consulted |-> <<Asked("aocd.input", 0, bi)>>]
  ELSE [input |-> input, raised |-> FALSE, consulted |-> <<>>]

\* Lines 105-115: the whole input chain.
ResolveInput(pre, fs, bi, day) ==
  LET a == InputFromUrl(pre, fs, day)
      b == InputFromAocd(a.input, bi)
      log == <<Asked("input", 0, IF pre = <<>> THEN None ELSE Some(pre))>>
               \o a.consulted \o b.consulted
  IN  [input |-> b.input,
       consulted |-> log,
       err |-> IF b.raised THEN Error("AocdError", "BackendUnavailable")
               ELSE IF b.input = <<>> THEN Error("ValueError", "MissingInput")
               ELSE NoError]

\* Lines 118-123: the answer_url candidate.
AnswerFromUrl(fs, day, part) ==
  IF advent.answer_url # ""
  THEN LET url == FormatAnswer(advent.answer_url, Year, day, part)
           got == ReadContents(fs, url)
       IN  [answer |-> got, consulted |-> <<Asked("answer_url", part, got)>>]
  ELSE [answer |-> None, consulted |-> <<>>]

\* The backend's value taken without looking at answered_a / answered_b.
AnswerFromAocdUnchecked(answer, day, part) ==
  IF answer = None /\ advent.use_aocd
  THEN LET got == Some(AcceptedAnswer(day, part))
       IN  [answer |-> got, consulted |-> <<Asked("aocd.answer", part, got)>>]
  ELSE [answer |-> answer, consulted |-> <<>>]

\* Lines 124-129: the backend candidate for a part's answer.
AnswerFromAocd(answer, day, part) ==
  IF answer = None /\ advent.use_aocd
  THEN LET got == IF answered[<<day, part>>]
                  THEN Some(AcceptedAnswer(day, part)) ELSE None
       IN  [answer |-> got, consulted |-> <<Asked("aocd.answer", part, got)>>]
  ELSE [answer |-> answer, consulted |-> <<>>]

\* Lines 117-129 for one part.
ResolveAnswer(fs, day, part) ==
  LET a == AnswerFromUrl(fs, day, part)
      b == AnswerFromAocd(a.answer, day, part)
  IN  [answer |-> b.answer, consulted |-> a.consulted \o b.consulted]

\* Advent.puzzle(day, input=pre) -> Puzzle.__post_init__.  The new Puzzle is
\* registered first (line 104), so it stays registered when construction
\* fails, with the input it had and no parts.
PuzzleNew(day, pre, fs, bi) ==
  /\ pc = "idle"
  /\ nops < MaxOps
  /\ LET r == ResolveInput(pre, fs, bi, day)
         a1 == ResolveAnswer(fs, day, 1)
         a2 == ResolveAnswer(fs, day, 2)
         ok == r.err = NoError
         parts == IF ok
                  THEN [p \in Parts |->
                          [NewPart EXCEPT !.answer = IF p = 1 THEN a1.answer ELSE a2.answer]]
                  ELSE <<>>
     IN  /\ puzzles' = (day :> [input |-> r.input, parts |-> parts]) @@ puzzles
         /\ err' = r.err
         /\ call' = [NoCall EXCEPT !.op = "puzzle", !.day = day,
                       !.arg = Some(pre),
                       !.consulted = IF ok THEN r.consulted \o a1.consulted \o a2.consulted
                                     ELSE r.consulted]
  /\ out' = <<>>
  /\ nops' = nops + 1
  /\ UNCHANGED <<advent, show, answered, pc, patched>>

\* ------------------------------------------------------------ Puzzle.verify
\* The name taken from the callable itself, a functools.partial included.
FuncNameNoUnwrap(f) == f.name

\* Lines 158-159: the name the check looks at (None when there is none).
FuncName(f) == IF f.wraps # None THEN f.wraps ELSE f.name

\* Lines 160-164: the name encodes a day, and it is not this puzzle's day.
LooksIncompatible(f, day) ==
  LET func_name == FuncName(f)
  IN  /\ func_name # None
      /\ Val(func_name) # <<>>
      /\ MatchDay(Val(func_name)) # None
      /\ Val(MatchDay(Val(func_name))) # day

HasPart(day, part) == day \in DOMAIN puzzles /\ part \in DOMAIN puzzles[day].parts

Part(day, part) == puzzles[day].parts[part]

\* A frame whose loop runs at least once, whatever `repeat` is.
FrameAtLeastOnce(op, day, part, silent, repeat, arg) ==
  [NoCall EXCEPT !.op = op, !.day = day, !.part = part, !.silent = silent,
                 !.repeat = IF repeat < 1 THEN 1 ELSE repeat, !.arg = arg,
                 !.answer0 = IF HasPart(day, part) THEN Part(day, part).answer ELSE None,
                 !.func0 = IF HasPart(day, part) THEN Part(day, part).func ELSE None,
                 !.elapsed0 = IF HasPart(day, part) THEN Part(day, part).elapsed_time
                              ELSE NegZero]

\* The frame of a call on a part: what the part held when the call began.
Frame(op, day, part, silent, repeat, arg) ==
  [NoCall EXCEPT !.op = op, !.day = day, !.part = part, !.silent = silent,
                 !.repeat = repeat, !.arg = arg,
                 !.answer0 = IF HasPart(day, part) THEN Part(day, part).answer ELSE None,
                 !.func0 = IF HasPart(day, part) THEN Part(day, part).func ELSE None,
                 !.elapsed0 = IF HasPart(day, part) THEN Part(day, part).elapsed_time
                              ELSE NegZero]

\* puzzle.verify(part, f, repeat=repeat), up to the entry of the repeat loop.
Verify(day, part, f, repeat) ==
  /\ pc = "idle"
  /\ nops < MaxOps
  /\ day \in DOMAIN puzzles
  /\ nops' = nops + 1
  /\ out' = <<>>
  /\ call' = Frame("verify", day, part, FALSE, repeat, Some(f))
  /\ IF LooksIncompatible(f, day)
     THEN /\ err' = Error("ValueError", "NamingMismatch")
          /\ UNCHANGED <<puzzles, pc>>
     ELSE IF ~HasPart(day, part)
     THEN /\ err' = Error("KeyError", "NoSuchPart")
          /\ UNCHANGED <<puzzles, pc>>
     ELSE /\ puzzles' = [puzzles EXCEPT ![day].parts[part].func = Some(f)]
          /\ err' = NoError
          /\ pc' = "loop"
  /\ UNCHANGED <<advent, show, answered, patched>>

\* ------------------------------------------------------- PuzzlePart.compute
\* puzzle.parts[part].compute(puzzle.input, silent=silent, repeat=repeat),
\* up to the entry of the repeat loop (lines 67-68).
Compute(day, part, silent, repeat) ==
  /\ pc = "idle"
  /\ nops < MaxOps
  /\ HasPart(day, part)
  /\ nops' = nops + 1
  /\ out' = <<>>
  /\ call' = Frame("compute", day, part, silent, repeat, None)
  /\ IF Part(day, part).func = None
     THEN /\ err' = Error("AssertionError", "Precondition")
          /\ pc' = "idle"
     ELSE /\ err' = NoError
          /\ pc' = "loop"
  /\ UNCHANGED <<advent, show, puzzles, answered, patched>>

\* Lines 70-73: the ExitStack is entered; under silent the three targets
\* are patched.
EnterStack(silent) == IF silent THEN SilentTargets ELSE {}

\* A stack that is unwound only when the block is left normally.
ExitStackNoUnwind(stack, raised) == IF raised THEN stack ELSE {}

\* Leaving the `with` block (line 79, or an exception unwinding through
\* it): every patch entered on the stack is undone.
ExitStack(stack, raised) == {}

\* Reconciliation done for the first run only.
AfterRunFirstOnly(i) == IF i = 1 THEN "reconcile" ELSE "loop"

\* Line 80 follows the `with` block inside the body of the `for`: every
\* run that produced a result goes on to the reconciliation.
AfterRun(i) == "reconcile"

\* print(): reaches the real stdout unless sys.stdout is patched.
WriteStdout(line) == IF "sys.stdout" \in patched THEN out ELSE Append(out, line)

\* Line 69: one more iteration of `for _ in range(repeat)`.
EnterRun ==
  /\ pc = "loop"
  /\ call.i < call.repeat
  /\ call' = [call EXCEPT !.i = @ + 1]
  /\ patched' = EnterStack(call.silent)
  /\ pc' = "run"
  /\ UNCHANGED <<advent, show, puzzles, answered, out, err, nops>>

\* Lines 74-79: one timed invocation of the solver; `o` is what it does
\* and `d` the time it takes.
RunSolver(o, d) ==
  /\ pc = "run"
  /\ o \in Val(Part(call.day, call.part).func).beh
  /\ patched' = ExitStack(patched, o.kind = "raise" \/ ~IsStrOrIntegral(o.raw))
  /\ IF o.kind = "raise"
     THEN /\ err' = Error("SolverError", "SolverRaised")
          /\ call' = [call EXCEPT !.runs = @ + 1]
          /\ pc' = "idle"
     ELSE IF ~IsStrOrIntegral(o.raw)
     THEN /\ err' = Error("ValueError", "TypeMismatch")
          /\ call' = [call EXCEPT !.runs = @ + 1, !.raw_result = Some(o.raw)]
          /\ pc' = "idle"
     ELSE /\ call' = [call EXCEPT !.runs = @ + 1,
                                  !.raw_result = Some(o.raw),
                                  !.result = Some(Str(o.raw)),
                                  !.elapsed_times = Append(@, d)]
          /\ pc' = AfterRun(call.i)
          /\ UNCHANGED err
  /\ UNCHANGED <<advent, show, puzzles, answered, out, nops>>

\* The comparison inverted.
DiffersInverted(result, answer) == result = answer

\* Line 81: the comparison with the recorded answer.
Differs(result, answer) == result # answer

\* The first measured time in place of the smallest.
FirstTime(ts) == ts[1]

\* min(elapsed_times) on a non-empty list.
MinTime(ts) ==
  CHOOSE t \in {ts[k] : k \in 1..Len(ts)} :
    \A k \in 1..Len(ts) : t.mag <= ts[k].mag

\* The binding of the solver undone when the call raises.
OnRaiseUnbound(p, times) == [p EXCEPT !.func = None]

\* The time recorded although the call raises.
OnRaiseTimed(p, times) == [p EXCEPT !.elapsed_time = MinTime(times)]

\* The part as the raise at line 82 leaves it: line 89 is not reached.
OnRaise(p, times) == p

\* aocd.submit (line 51): the backend marks the part answered when the
\* submitted value is the accepted one and it takes the submission
\* (`accept`; it may also not yet confirm, e.g. when rate limited).
Submit(day, part, result, accept) ==
  [answered EXCEPT ![<<day, part>>] =
     @ \/ (accept /\ result = AcceptedAnswer(day, part))]

\* The submitted value taken as the answer without confirmation.
AocdAnswerLocal(backend, day, part, result) ==
  IF backend[<<day, part>>] THEN Some(AcceptedAnswer(day, part)) ELSE Some(result)

\* Lines 52-63: what _aocd_submit returns, given the backend after submit.
AocdAnswer(backend, day, part, result) ==
  IF backend[<<day, part>>] THEN Some(AcceptedAnswer(day, part)) ELSE None

\* An answer taken as not recorded whatever the part holds.
NeverRecorded(answer) == FALSE

\* Line 80: `self.answer is not None`.
IsRecorded(answer) == answer # None

\* Lines 80-88, inside the repeat loop: check against the recorded answer,
\* or print, (submit) and record.
Reconcile(accept) ==
  /\ pc = "reconcile"
  /\ LET day == call.day
         part == call.part
         result == Val(call.result)
         answer == Part(day, part).answer
     IN  IF IsRecorded(answer)
         THEN /\ IF Differs(result, Val(answer))
                 THEN /\ err' = [Error("ValueError", "AnswerMismatch") EXCEPT
                                   !.actual = Some(result), !.expected = answer]
                      /\ puzzles' = [puzzles EXCEPT ![day].parts[part] =
                                       OnRaise(@, call.elapsed_times)]
                      /\ pc' = "idle"
                 ELSE /\ pc' = "loop"
                      /\ UNCHANGED <<err, puzzles>>
              /\ call' = [call EXCEPT !.reconciled = @ + 1]
              /\ UNCHANGED <<answered, out>>
         ELSE /\ out' = WriteStdout("Obtained result")
              /\ IF advent.use_aocd
                 THEN /\ answered' = Submit(day, part, result, accept)
                      /\ puzzles' = [puzzles EXCEPT ![day].parts[part].answer =
                                       AocdAnswer(answered', day, part, result)]
                      /\ call' = [call EXCEPT !.reconciled = @ + 1, !.submits = @ + 1]
                 ELSE /\ puzzles' = [puzzles EXCEPT ![day].parts[part].answer = Some(result)]
                      /\ call' = [call EXCEPT !.reconciled = @ + 1]
                      /\ UNCHANGED answered
              /\ pc' = "loop"
              /\ UNCHANGED err
  /\ UNCHANGED <<advent, show, patched, nops>>

\* Where a compute that completes returns to: the statement after the call
\* in show_times (line 218), or the top level.
Return == IF call.caller = "show_times" THEN "cell" ELSE "idle"

\* Lines 89-91, after the loop: record the best time and print it.
Finish ==
  /\ pc = "loop"
  /\ call.i >= call.repeat
  /\ IF call.elapsed_times = <<>>
     THEN /\ err' = Error("ValueError", "EmptyMin")
          /\ UNCHANGED <<puzzles, out>>
     ELSE /\ puzzles' = [puzzles EXCEPT ![call.day].parts[call.part].elapsed_time =
                           MinTime(call.elapsed_times)]
          /\ out' = IF call.silent THEN out ELSE WriteStdout("Part time")
          /\ UNCHANGED err
  /\ pc' = IF call.elapsed_times = <<>> THEN "idle" ELSE Return
  /\ UNCHANGED <<advent, show, answered, call, patched, nops>>

\* -------------------------------------------------------- Advent.show_times
\* float addition on the values that occur: -0.0 + -0.0 is -0.0, any other
\* sum of zeros is 0.0.
AddTime(a, b) ==
  IF a.mag + b.mag = 0
  THEN (IF a.neg /\ b.neg THEN NegZero ELSE Secs(0))
  ELSE Secs(a.mag + b.mag)

RECURSIVE Spaces(_)
Spaces(n) == IF n <= 0 THEN <<>> ELSE <<" ">> \o Spaces(n - 1)

\* f'{t:#6.3f}' on a whole number of seconds: sign, digits, '.000',
\* right-aligned in six columns.
FormatTime(t) ==
  LET body == (IF t.neg THEN <<"-">> ELSE <<>>) \o NatStr(t.mag) \o <<".", "0", "0", "0">>
  IN  Spaces(6 - Len(body)) \o body

\* The text appended at line 213.
NotApplicable == <<" ", " ", "n", "/", "a", " ">>

\* One `part_N:` entry of a report line: what is shown, and the time that
\* went into the total (None for a part shown as not applicable).
Cell(part, shown, time) == [part |-> part, shown |-> shown, time |-> time]

\* The never-run sentinel shown as not applicable.
TimeCellNeverRunNA(p, part) ==
  IF p.elapsed_time = NegZero THEN Cell(part, NotApplicable, None)
  ELSE Cell(part, FormatTime(p.elapsed_time), Some(p.elapsed_time))

\* Line 218: the entry of a part that exists.
TimeCell(p, part) == Cell(part, FormatTime(p.elapsed_time), Some(p.elapsed_time))

\* The days in the order the registry happens to hold them (largest first).
RECURSIVE DescendingDays(_)
DescendingDays(S) ==
  IF S = {} THEN <<>>
  ELSE LET m == CHOOSE d \in S : \A e \in S : e <= d
       IN  <<m>> \o DescendingDays(S \ {m})

\* Line 207: sorted(self.puzzles.items()), the days in ascending order.
RECURSIVE SortedDays(_)
SortedDays(S) ==
  IF S = {} THEN <<>>
  ELSE LET m == CHOOSE d \in S : \A e \in S : d <= e
       IN  <<m>> \o SortedDays(S \ {m})

\* Recomputation for every part, bound solver or not.
WantsComputeAlways(recompute, p) == recompute

\* Line 216: the part is recomputed.
WantsCompute(recompute, p) == recompute /\ p.func # None

\* advent.show_times(recompute=recompute, repeat=repeat), lines 205-207.
ShowTimes(recompute, repeat) ==
  /\ pc = "idle"
  /\ nops < MaxOps
  /\ nops' = nops + 1
  /\ out' = IF recompute /\ repeat > 1 THEN <<"Computing min times">> ELSE <<>>
  /\ err' = NoError
  /\ call' = [NoCall EXCEPT !.op = "show_times", !.repeat = repeat]
  /\ show' = [NoShow EXCEPT !.recompute = recompute, !.repeat = repeat,
                            !.days = SortedDays(DOMAIN puzzles)]
  /\ pc' = "day"
  /\ UNCHANGED <<advent, puzzles, answered, patched>>

\* Lines 207-208: the next day of the outer loop.
ShowDay ==
  /\ pc = "day"
  /\ show.days # <<>>
  /\ show' = [show EXCEPT !.day = Head(show.days), !.days = Tail(show.days),
                          !.part = 1, !.s = <<>>]
  /\ pc' = "part"
  /\ UNCHANGED <<advent, puzzles, answered, call, patched, out, err, nops>>

\* Lines 209-217: the next part of the inner loop, up to the call of compute.
ShowPart ==
  /\ pc = "part"
  /\ show.part \in Parts
  /\ IF ~HasPart(show.day, show.part)
     THEN /\ show' = [show EXCEPT !.s = Append(@, Cell(show.part, NotApplicable, None)),
                                  !.part = @ + 1]
          /\ UNCHANGED <<pc, call, err>>
     ELSE IF WantsCompute(show.recompute, Part(show.day, show.part))
     THEN /\ show' = [show EXCEPT !.computed = @ \cup {<<show.day, show.part>>}]
          /\ call' = [Frame("compute", show.day, show.part, TRUE, show.repeat, None)
                        EXCEPT !.caller = "show_times"]
          /\ IF Part(show.day, show.part).func = None
             THEN /\ err' = Error("AssertionError", "Precondition")
                  /\ pc' = "idle"
             ELSE /\ pc' = "loop"
                  /\ UNCHANGED err
     ELSE /\ pc' = "cell"
          /\ UNCHANGED <<show, call, err>>
  /\ UNCHANGED <<advent, puzzles, answered, patched, out, nops>>

\* Lines 218-219: the part's time goes on the line and into the total.
ShowCell ==
  /\ pc = "cell"
  /\ LET p == Part(show.day, show.part)
     IN  show' = [show EXCEPT !.s = Append(@, TimeCell(p, show.part)),
                             !.total = AddTime(@, p.elapsed_time),
                             !.part = @ + 1]
  /\ pc' = "part"
  /\ UNCHANGED <<advent, puzzles, answered, call, patched, out, err, nops>>

\* Line 220: the day's line is printed.
ShowLine ==
  /\ pc = "part"
  /\ show.part \notin Parts
  /\ show' = [show EXCEPT !.lines = Append(@, [day |-> show.day, cells |-> show.s])]
  /\ pc' = "day"
  /\ UNCHANGED <<advent, puzzles, answered, call, patched, out, err, nops>>

\* Line 221: the grand total is printed.
ShowTotal ==
  /\ pc = "day"
  /\ show.days = <<>>
  /\ show' = [show EXCEPT !.done = TRUE]
  /\ pc' = "idle"
  /\ UNCHANGED <<advent, puzzles, answered, call, patched, out, err, nops>>

\* ------------------------------------------------------------ specification
\* The fixtures the full system is run on: the day's input file with the
\* stored answer of part 1, with no stored answer, or no file at all.
Fixtures(day) ==
  { fs \in FileSystems(day) :
      /\ fs[FormatAnswer(AnswerTemplate, Year, day, 2)] = None
      /\ fs[FormatInput(InputTemplate, Year, day)] # Some(<<>>)
      /\ (fs[FormatInput(InputTemplate, Year, day)] = None
            => fs[FormatAnswer(AnswerTemplate, Year, day, 1)] = None) }

RunDays == {5}

Next ==
  \/ \E day \in RunDays : \E fs \in Fixtures(day) : PuzzleNew(day, <<>>, fs, Some(<<"y">>))
  \/ \E day \in RunDays, part \in Parts, f \in Funcs, repeat \in Repeats :
       Verify(day, part, f, repeat)
  \/ \E day \in RunDays, part \in Parts, silent \in BOOLEAN, repeat \in Repeats :
       Compute(day, part, silent, repeat)
  \/ EnterRun
  \/ \E o \in Outcomes, d \in Durations : RunSolver(o, d)
  \/ \E accept \in BOOLEAN : Reconcile(accept)
  \/ Finish

\* The full system is run on an Advent configured with both templates, as
\* in test_creation (or as derived from tar_url, lines 194-195), with or
\* without the backend token (line 197).
InitRun ==
  /\ Init
  /\ advent.input_url = InputTemplate
  /\ advent.answer_url = AnswerTemplate

Spec == InitRun /\ [][Next]_vars

\* Construction alone, under every environment.
NextConstruct ==
  \E day \in Days, pre \in {<<>>, <<"p">>}, bi \in {None} \cup {Some(t) : t \in BackendInputs} :
    \E fs \in FileSystems(day) : PuzzleNew(day, pre, fs, bi)

SpecConstruct == Init /\ [][NextConstruct]_vars

\* The registry and its report: construction on both days (no input file,
\* the input file alone, or the input file with both stored answers),
\* solvers verified and computed on one of them, and show_times; the
\* silent computes are the ones show_times makes.
TimesFixtures(day) ==
  { fs \in FileSystems(day) :
      /\ fs[FormatInput(InputTemplate, Year, day)] # Some(<<>>)
      /\ fs[FormatAnswer(AnswerTemplate, Year, day, 1)]
           = fs[FormatAnswer(AnswerTemplate, Year, day, 2)]
      /\ (fs[FormatInput(InputTemplate, Year, day)] = None
            => fs[FormatAnswer(AnswerTemplate, Year, day, 1)] = None) }

\* The solvers tried there: one that returns the right or a wrong integer,
\* one that raises, and one that returns an integer on some runs and a
\* float on others.
TimesFuncs ==
  { f \in Funcs : f.name = Some(N_lambda) \/ f.wraps = Some(N_day5) }
    \cup {Solver(Some(N_day05_b), None, {Ret(IntV(7)), Ret(FloatV(7))})}

NextTimes ==
  \/ \E day \in Days : \E fs \in TimesFixtures(day) : PuzzleNew(day, <<>>, fs, None)
  \/ \E day \in RunDays, part \in Parts, f \in TimesFuncs, repeat \in Repeats :
       Verify(day, part, f, repeat)
  \/ \E day \in RunDays, part \in Parts, repeat \in Repeats :
       Compute(day, part, FALSE, repeat)
  \/ \E recompute \in BOOLEAN, repeat \in Repeats : ShowTimes(recompute, repeat)
  \/ ShowDay
  \/ ShowPart
  \/ ShowCell
  \/ ShowLine
  \/ ShowTotal
  \/ EnterRun
  \/ \E o \in Outcomes, d \in Durations : RunSolver(o, d)
  \/ \E accept \in BOOLEAN : Reconcile(accept)
  \/ Finish

SpecTimes == InitRun /\ [][NextTimes]_vars

\* ================================================================= claims
\* The call in flight (or the last one) is a verify / compute on a part
\* that exists, and the part it is about.
OnPart == call.op \in {"verify", "compute"} /\ HasPart(call.day, call.part)
ThePart == Part(call.day, call.part)
Obtained == Cardinality({k \in 1..Len(out) : out[k] = "Obtained result"})
Completed == OnPart /\ pc = "idle" /\ err = NoError

\* ---------------------------------------------------------------------- C1
\* C1 as stated: in one compute call the answer reconciliation happens
\* once, after the first run only; so the call makes at most one backend
\* submission and prints 'Obtained result' at most once, whatever N is.
C1_OncePerCall ==
  OnPart => /\ call.reconciled <= 1
            /\ call.submits <= 1
            /\ Obtained <= 1

\* C1 amended: the reconciliation happens after every run that produced a
\* result (N times in a call that completes): each result is compared with
\* the recorded answer or, while none is recorded, printed and recorded or
\* submitted.  With the backend disabled nothing is submitted and 'Obtained
\* result' is printed at most once; with it enabled there is one submission
\* per print, and a second one only while the answer is still unset.
C1_EveryRun ==
  OnPart =>
    /\ call.reconciled = Len(call.elapsed_times) - (IF pc = "reconcile" THEN 1 ELSE 0)
    /\ (Completed => call.reconciled = call.repeat)
    /\ Obtained <= call.reconciled
    /\ (~advent.use_aocd => call.submits = 0 /\ Obtained <= 1)
    /\ (advent.use_aocd => call.submits = Obtained)
    /\ (call.submits >= 2 => call.answer0 = None)
    /\ (call.answer0 # None => call.submits = 0 /\ Obtained = 0)

\* A completed call of two runs that reconciled, submitted and printed twice.
C1_Witness ==
  /\ Completed
  /\ call.repeat = 2
  /\ call.reconciled = 2
  /\ call.submits = 2
  /\ Obtained = 2

\* ---------------------------------------------------------------------- C2
\* C2: a run whose stringified result differs from the recorded answer A
\* ends the call with AnswerMismatch carrying the result and A, and the
\* recorded answer stays A; no result that differs from the recorded answer
\* gets past the reconciliation.
C2_MismatchRaises ==
  (OnPart /\ pc # "reconcile" /\ call.result # None /\ ThePart.answer # None) =>
    /\ (call.answer0 # None => ThePart.answer = call.answer0)
    /\ IF Val(call.result) # Val(ThePart.answer)
       THEN /\ pc = "idle"
            /\ err.exc = "ValueError" /\ err.what = "AnswerMismatch"
            /\ err.actual = call.result
            /\ err.expected = ThePart.answer
       ELSE err.what # "AnswerMismatch"

\* A silent call whose second run disagrees with the answer supplied at
\* construction.
C2_Witness ==
  /\ OnPart /\ pc = "idle"
  /\ err.what = "AnswerMismatch"
  /\ call.silent
  /\ call.runs = 2
  /\ call.answer0 # None
  /\ ThePart.answer = call.answer0

\* ---------------------------------------------------------------------- C3
\* C3 as stated: when the call fails with AnswerMismatch against a
\* pre-supplied answer, elapsed_time has nevertheless been updated to the
\* measured duration of the run.
C3_TimedOnMismatch ==
  (OnPart /\ pc = "idle" /\ err.what = "AnswerMismatch" /\ call.answer0 # None) =>
    /\ ThePart.elapsed_time # NegZero
    /\ ThePart.elapsed_time = MinTime(call.elapsed_times)

\* C3 amended: when the call fails with AnswerMismatch, elapsed_time is not
\* updated: it keeps the value it had before the call (the never-ran
\* sentinel if no compute on the part completed before), although a run was
\* measured.
C3_UntimedOnMismatch ==
  (OnPart /\ pc = "idle" /\ err.what = "AnswerMismatch") =>
    /\ Len(call.elapsed_times) >= 1
    /\ ThePart.elapsed_time = call.elapsed0

\* A mismatch against a pre-supplied answer on a part that never ran, after
\* a run that took a tick.
C3_Witness ==
  /\ OnPart /\ pc = "idle"
  /\ err.what = "AnswerMismatch"
  /\ call.answer0 # None
  /\ call.elapsed_times = <<Secs(1)>>
  /\ ThePart.elapsed_time = NegZero

\* ---------------------------------------------------------------------- C4
\* C4: once a call that found no recorded answer has reconciled a result,
\* the recorded answer is, with the backend disabled, the stringified
\* result; with the backend enabled, the backend's accepted value if the
\* backend marks the part answered and unset otherwise.
C4_RecordOrConfirm ==
  (OnPart /\ call.answer0 = None /\ call.reconciled >= 1) =>
    IF advent.use_aocd
    THEN ThePart.answer = IF answered[<<call.day, call.part>>]
                          THEN Some(AcceptedAnswer(call.day, call.part))
                          ELSE None
    ELSE /\ ThePart.answer # None
         /\ (pc # "reconcile" /\ err.what # "AnswerMismatch"
               => ThePart.answer = call.result)

\* A completed call with the backend enabled whose submission was not
\* confirmed: the answer is still unset.
C4_Witness ==
  /\ Completed
  /\ advent.use_aocd
  /\ call.answer0 = None
  /\ call.submits >= 1
  /\ ThePart.answer = None
  /\ call.result = Some(AcceptedAnswer(call.day, call.part))

\* ---------------------------------------------------------------------- C5
\* The solver bound to the part returns 7 or '7' on every run.
ReturnsSeven(f) == f.beh \subseteq {Ret(IntV(7)), Ret(StrV(<<"7">>))}

\* C5: a compute on a part whose recorded answer is "7", with a solver that
\* returns 7 (or '7') on every run, succeeds for every repeat >= 1, leaves
\* the answer "7" and submits nothing; so does the next such call.
C5_MatchingIsIdempotent ==
  (OnPart /\ pc = "idle" /\ call.i >= 1 /\ call.answer0 = Some(<<"7">>)
     /\ ReturnsSeven(Val(ThePart.func))) =>
    /\ err = NoError
    /\ ThePart.answer = Some(<<"7">>)
    /\ call.submits = 0
    /\ Obtained = 0

\* The second of two such calls: the part had already completed a compute
\* with the same solver when this one began.
C5_Witness ==
  /\ Completed
  /\ call.op = "compute"
  /\ call.repeat = 2
  /\ call.answer0 = Some(<<"7">>)
  /\ call.func0 = ThePart.func
  /\ ReturnsSeven(Val(ThePart.func))
  /\ call.elapsed0 # NegZero

\* ---------------------------------------------------------------------- C6
\* The candidates of the input chain that the last construction asked, in
\* the order it asked them, and whether one of them yielded a value.
InputChain == SelectSeq(call.consulted, LAMBDA e : e.part = 0)
Rank(src) == CASE src = "input" -> 1 [] src = "input_url" -> 2 [] src = "aocd.input" -> 3
Yields(e) == e.got # None /\ Val(e.got) # <<>>
LastAsked == InputChain[Len(InputChain)]
AskedFor(src) == \E k \in 1..Len(InputChain) : InputChain[k].src = src

\* What the chain has to say up to the outcome: the candidates are asked in
\* the order supplied value, input_url, backend; a later one only after
\* every earlier one yielded nothing; every configured one is asked before
\* the chain gives up; the first that yields a value determines the input.
InputChainOrder ==
  /\ Len(InputChain) >= 1
  /\ InputChain[1].src = "input"
  /\ \A i, j \in 1..Len(InputChain) :
       i < j => /\ Rank(InputChain[i].src) < Rank(InputChain[j].src)
                /\ ~Yields(InputChain[i])
  /\ (~Yields(LastAsked) =>
        /\ (advent.input_url # "" => AskedFor("input_url"))
        /\ (advent.use_aocd => AskedFor("aocd.input")))
  /\ (AskedFor("input_url") => advent.input_url # "")
  /\ (AskedFor("aocd.input") => advent.use_aocd)
  /\ (Yields(LastAsked) =>
        /\ err = NoError
        /\ puzzles[call.day].input =
             IF LastAsked.src = "aocd.input" /\ ~EndsWithNewline(Val(LastAsked.got))
             THEN Val(LastAsked.got) \o <<"\n">>
             ELSE Val(LastAsked.got))

\* C6 as stated: the order above, and when every configured candidate
\* yields nothing the construction fails with MissingInput.
C6_MissingInputAlways ==
  call.op = "puzzle" =>
    /\ InputChainOrder
    /\ (~Yields(LastAsked) => err = Error("ValueError", "MissingInput"))

\* C6 amended: the order above; when no candidate yields a value the
\* construction fails with MissingInput if the backend is not enabled, and
\* with the backend's own error if the backend is enabled and has no input
\* to give (MissingInput is then never raised).
C6_InputChain ==
  call.op = "puzzle" =>
    /\ InputChainOrder
    /\ (~Yields(LastAsked) =>
          /\ puzzles[call.day].input = <<>>
          /\ err = IF advent.use_aocd
                   THEN Error("AocdError", "BackendUnavailable")
                   ELSE Error("ValueError", "MissingInput"))
    /\ (err.what = "MissingInput" => ~advent.use_aocd)

\* All three candidates asked: nothing supplied, an empty file at the
\* input_url location, and the backend's text taken, newline-terminated.
C6_Witness ==
  /\ call.op = "puzzle"
  /\ Len(InputChain) = 3
  /\ InputChain[2].got = Some(<<>>)
  /\ InputChain[3].got = Some(<<"y">>)
  /\ puzzles[call.day].input = <<"y", "\n">>

\* ---------------------------------------------------------------------- C7
AnswerChain(p) == SelectSeq(call.consulted, LAMBDA e : e.part = p)

\* C7: a construction whose input was resolved creates both parts; for each
\* part it asks answer_url (when configured), then the backend only if that
\* gave no answer and use_aocd is set, and the backend's value counts only
\* if it marks the part answered; the answer is the first one obtained, or
\* unset when there is none, for part 2 whatever happened for part 1.
C7_AnswerChain ==
  (call.op = "puzzle" /\ err = NoError) =>
    /\ DOMAIN puzzles[call.day].parts = Parts
    /\ \A p \in Parts :
         LET ch == AnswerChain(p)
             viaUrl == advent.answer_url # ""
             urlGot == IF viaUrl THEN ch[1].got ELSE None
             viaAocd == advent.use_aocd /\ urlGot = None
             aocdGot == IF viaAocd THEN ch[Len(ch)].got ELSE None
             part == puzzles[call.day].parts[p]
         IN  /\ Len(ch) = (IF viaUrl THEN 1 ELSE 0) + (IF viaAocd THEN 1 ELSE 0)
             /\ (viaUrl => ch[1].src = "answer_url")
             /\ (viaAocd =>
                   /\ ch[Len(ch)].src = "aocd.answer"
                   /\ aocdGot = IF answered[<<call.day, p>>]
                                THEN Some(AcceptedAnswer(call.day, p)) ELSE None)
             /\ part.answer = IF urlGot # None THEN urlGot ELSE aocdGot
             /\ part.func = None
             /\ part.elapsed_time = NegZero

\* Part 1 found nowhere (location missing, backend asked and not answered)
\* and part 2 read from its location.
C7_Witness ==
  /\ call.op = "puzzle" /\ err = NoError
  /\ Len(AnswerChain(1)) = 2
  /\ puzzles[call.day].parts[1].answer = None
  /\ puzzles[call.day].parts[2].answer = Some(<<"7">>)

\* ---------------------------------------------------------------------- C8
\* The day each solver of Funcs declares by its name (or, for a
\* functools.partial, by the name of the function it wraps), read off the
\* names: day5 and day05_b declare 5, day3 declares 3, day55 declares 55,
\* myday3 and <lambda> declare none.
DeclaredDay(f) ==
  IF f.name \in {Some(N_day5), Some(N_day05_b)} \/ f.wraps = Some(N_day5) THEN Some(5)
  ELSE IF f.name = Some(N_day3) \/ f.wraps = Some(N_day3) THEN Some(3)
  ELSE IF f.name = Some(N_day55) THEN Some(55)
  ELSE None

\* C8: a verify with a solver that declares another day fails with
\* NamingMismatch with the solver never invoked and the part's func, answer
\* and elapsed_time as before; with a solver that declares no day or the
\* puzzle's day the solver is bound and compute is entered.
C8_NamingCheckFirst ==
  call.op = "verify" =>
    LET f == Val(call.arg)
    IN  IF DeclaredDay(f) # None /\ Val(DeclaredDay(f)) # call.day
        THEN /\ pc = "idle"
             /\ err = Error("ValueError", "NamingMismatch")
             /\ call.runs = 0 /\ call.i = 0
             /\ (HasPart(call.day, call.part) =>
                   /\ ThePart.func = call.func0
                   /\ ThePart.answer = call.answer0
                   /\ ThePart.elapsed_time = call.elapsed0)
        ELSE /\ err.what # "NamingMismatch"
             /\ (HasPart(call.day, call.part) =>
                   /\ ThePart.func = call.arg
                   /\ (pc = "idle" => call.i >= 1 \/ err.what = "EmptyMin"))

\* A mismatching solver offered to a part that holds another solver and a
\* measured time: both are kept.
C8_Witness ==
  /\ OnPart /\ call.op = "verify" /\ pc = "idle"
  /\ err.what = "NamingMismatch"
  /\ call.func0 # None
  /\ call.func0 # call.arg
  /\ ThePart.func = call.func0
  /\ ThePart.elapsed_time # NegZero

\* ---------------------------------------------------------------------- C9
\* C9: the runs of a call are made one after the other, and a call with
\* repeat = N that completes has invoked the solver N times and left in
\* elapsed_time the smallest of the N measured times, whatever was there.
C9_MinOfRuns ==
  OnPart =>
    /\ call.runs = call.i - (IF pc = "run" THEN 1 ELSE 0)
    /\ (Completed =>
          /\ call.repeat >= 1
          /\ call.runs = call.repeat
          /\ Len(call.elapsed_times) = call.repeat
          /\ \E k \in 1..call.repeat : ThePart.elapsed_time = call.elapsed_times[k]
          /\ \A k \in 1..call.repeat :
               ThePart.elapsed_time.mag <= call.elapsed_times[k].mag)

\* Two runs, the second the faster, on a part whose recorded time was the
\* slow one's.
C9_Witness ==
  /\ Completed
  /\ call.elapsed_times = <<Secs(1), Secs(0)>>
  /\ call.elapsed0 = Secs(1)
  /\ ThePart.elapsed_time = Secs(0)

\* A completed call replaces a smaller recorded time by its own minimum.
C9_WitnessReplaced ==
  /\ Completed
  /\ call.elapsed_times = <<Secs(1), Secs(1)>>
  /\ call.elapsed0 = Secs(0)
  /\ ThePart.elapsed_time = Secs(1)

\* --------------------------------------------------------------------- C10
\* C10: the three targets are patched exactly while a silent run is in
\* progress; in every other state, in particular after the call has exited
\* in whatever way, nothing is patched.
C10_PatchesRestored ==
  patched = IF pc = "run" /\ call.silent THEN SilentTargets ELSE {}

\* A silent compute that ended because the solver raised.
C10_Witness ==
  /\ OnPart /\ pc = "idle"
  /\ call.silent
  /\ call.runs >= 1
  /\ err.what = "SolverRaised"
  /\ patched = {}

\* --------------------------------------------------------------------- C11
\* The call in flight (or the last one) is a compute made by show_times.
Recomputing == call.caller = "show_times" /\ OnPart
Timed == Cardinality({k \in 1..Len(out) : out[k] = "Part time"})

\* C11: the silent recompute that show_times(recompute=True, repeat=k)
\* makes on a part with a bound solver prints no result line and no timing
\* line, makes no backend submission and leaves the part's recorded answer
\* as it was, in every state the part can be in (its answer may still be
\* unset because the backend did not confirm an earlier submission).
C11_RecomputeIsQuiet ==
  Recomputing => /\ Obtained = 0
                 /\ Timed = 0
                 /\ call.submits = 0
                 /\ ThePart.answer = call.answer0

\* --------------------------------------------------------------------- C12
\* show_times is the call in flight, or the last call made.
Reporting == call.op = "show_times" \/ call.caller = "show_times"

\* Every entry written so far, with its day: those of the printed lines
\* and those of the line being built.
Entries ==
  {[day |-> show.lines[k].day, cell |-> show.lines[k].cells[j]] :
     k \in 1..Len(show.lines), j \in 1..2}
    \cup {[day |-> show.day, cell |-> show.s[j]] : j \in 1..Len(show.s)}

NeverRan(day, part) ==
  HasPart(day, part) => (Part(day, part).elapsed_time = NegZero \/ Part(day, part).func = None)

\* C12 as stated: in the report a part that was never run, or that has no
\* bound solver, is shown with the not-applicable marker rather than a
\* time; a part that has been run is shown with its elapsed_time.
C12_NeverRunIsNA ==
  Reporting =>
    \A e \in Entries :
      IF NeverRan(e.day, e.cell.part)
      THEN e.cell.shown = NotApplicable
      ELSE e.cell.shown = FormatTime(Part(e.day, e.cell.part).elapsed_time)

\* C12: the not-applicable marker is shown exactly for a part the puzzle
\* does not have (its construction failed before the parts were made);
\* every part that exists is shown with its elapsed_time, which for a
\* part that never ran is the sentinel -0.0, printed as -0.000.
C12_MissingIsNA ==
  Reporting =>
    \A e \in Entries :
      IF HasPart(e.day, e.cell.part)
      THEN /\ e.cell.shown = FormatTime(Part(e.day, e.cell.part).elapsed_time)
           /\ e.cell.shown # NotApplicable
           /\ (Part(e.day, e.cell.part).elapsed_time = NegZero
                 => e.cell.shown = <<"-", "0", ".", "0", "0", "0">>)
      ELSE e.cell.shown = NotApplicable

\* A finished report with a never-run part shown as -0.000 and a part
\* that ran shown with its time.
C12_Witness ==
  /\ Reporting
  /\ show.done
  /\ \E e \in Entries : /\ HasPart(e.day, e.cell.part)
                        /\ Part(e.day, e.cell.part).elapsed_time = NegZero
                        /\ e.cell.shown = <<"-", "0", ".", "0", "0", "0">>
  /\ \E e \in Entries : /\ HasPart(e.day, e.cell.part)
                        /\ Part(e.day, e.cell.part).elapsed_time = Secs(1)
                        /\ e.cell.shown = <<" ", "1", ".", "0", "0", "0">>

\* --------------------------------------------------------------------- C13
\* The sum of the times of a set of entries, in ticks; an entry shown as
\* not applicable has no time and adds nothing.
RECURSIVE SumOfTimes(_)
SumOfTimes(E) ==
  IF E = {} THEN 0
  ELSE LET e == CHOOSE x \in E : TRUE
       IN  (IF e.cell.time = None THEN 0 ELSE Val(e.cell.time).mag)
             + SumOfTimes(E \ {e})

LineDays == {show.lines[k].day : k \in 1..Len(show.lines)}

C13_WitnessTotal ==
  /\ Reporting
  /\ show.done
  /\ show.recompute
  /\ show.total = Secs(1)
  /\ \E e \in Entries : e.cell.time = Some(Secs(1))
  /\ \E e \in Entries : e.cell.time = Some(NegZero)

\* --------------------------------------------------------------------- C14
\* A verify (repeat >= 1) that passed the naming check, on a part whose
\* stored answer was resolved at construction: the answer stays the stored
\* one; the call fails only when the solver raised, returned a value of
\* the wrong type, or returned a value whose string form differs from the
\* stored answer; and when it completes every run returned that string.
C14_State ==
  (/\ call.op = "verify"
   /\ OnPart
   /\ err.what # "NamingMismatch"
   /\ call.answer0 # None
   /\ call.repeat >= 1) =>
     /\ ThePart.answer = call.answer0
     /\ ThePart.func = call.arg
     /\ err # NoError =>
          \/ err.what \in {"SolverRaised", "TypeMismatch"}
          \/ /\ err.what = "AnswerMismatch"
             /\ err.expected = call.answer0
             /\ err.actual # call.answer0
     /\ (pc = "idle" /\ err = NoError) =>
          /\ call.result = ThePart.answer
          /\ call.runs = call.repeat

\* A step of a verify leaves the other part of the puzzle as it was.
C14_Frame ==
  call'.op = "verify" =>
    \A q \in Parts \ {call'.part} :
      HasPart(call'.day, q) => puzzles'[call'.day].parts[q] = puzzles[call'.day].parts[q]

\* C14: on a Puzzle whose input and stored answers came from the
\* templates, verify(1, f1) and then verify(2, f2) complete without error
\* whenever the solvers return values whose string form is the stored
\* answer; each part's answer is that string afterwards, and verifying one
\* part leaves the other part's answer, func and elapsed_time unchanged.
C14_EndToEnd == [][C14_State' /\ C14_Frame]_vars

\* Both parts verified against their stored answers, one after the other.
C14_Witness ==
  /\ call.op = "verify"
  /\ call.part = 2
  /\ Completed
  /\ nops = 3
  /\ \A q \in Parts : /\ Part(call.day, q).answer = Some(<<"7">>)
                      /\ Part(call.day, q).func # None
                      /\ Part(call.day, q).elapsed_time # NegZero
  /\ call.answer0 = Some(<<"7">>)
  /\ ~advent.use_aocd

\* --------------------------------------------------------------------- C15
\* C15: every Puzzle registered in Advent.puzzles has a non-empty input
\* and exactly the two parts 1 and 2, and the entry of a day is the Puzzle
\* constructed last for that day, also after constructions that failed.
C15_RegisteredAreComplete ==
  /\ \A day \in DOMAIN puzzles :
       /\ puzzles[day].input # <<>>
       /\ DOMAIN puzzles[day].parts = Parts
  /\ call.op = "puzzle" =>
       /\ call.day \in DOMAIN puzzles
       /\ err = NoError => puzzles[call.day].input # <<>>

\* --------------------------------------------------------------------- C16
\* C16: a run of the bound solver that returns a value that is neither
\* text nor an integral number ends compute with TypeMismatch; the value
\* is not stringified (result keeps the previous run's string), it is not
\* compared with the answer nor submitted, and the part - its recorded
\* answer first of all - is left as it was before that run.
C16_TypeMismatch ==
  [][(/\ pc = "run"
      /\ call'.raw_result # None
      /\ Val(call'.raw_result).type \notin {"str", "int"}) =>
        /\ err'.what = "TypeMismatch"
        /\ pc' = "idle"
        /\ call'.result = call.result
        /\ call'.reconciled = call.reconciled
        /\ call'.submits = call.submits
        /\ answered' = answered
        /\ puzzles' = puzzles
        /\ out' = out]_vars

\* The second run of a call returned a float after the first run's result
\* had been recorded as the answer: the answer is still the first run's.
C16_Witness ==
  /\ OnPart
  /\ pc = "idle"
  /\ err.what = "TypeMismatch"
  /\ call.runs = 2
  /\ call.raw_result = Some(FloatV(7))
  /\ call.answer0 = None
  /\ ThePart.answer = Some(<<"7">>)
  /\ ThePart.elapsed_time = NegZero

\* --------------------------------------------------------------------- C17
\* The parts that have a bound solver.
Bound == {k \in Days \X Parts : HasPart(k[1], k[2]) /\ Part(k[1], k[2]).func # None}

\* The parts show_times has an entry for, or is computing.
Visited ==
  {<<e.day, e.cell.part>> : e \in Entries}
    \cup (IF call.caller = "show_times" THEN {<<call.day, call.part>>} ELSE {})

\* During and after a show_times: compute has been called on the visited
\* parts that have a bound solver and on no other part, so never on a part
\* without one; without recompute no compute is called and no solver run.
C17_State ==
  Reporting =>
    /\ show.computed = (IF show.recompute THEN Visited \cap Bound ELSE {})
    /\ (show.done /\ show.recompute) => show.computed = Bound
    /\ err.what # "Precondition"
    /\ ~show.recompute => (call.op = "show_times" /\ call.runs = 0)

\* A step of a show_times without recompute changes no part.
C17_Frame ==
  (call'.op = "show_times" /\ ~show'.recompute) =>
    (puzzles' = puzzles /\ answered' = answered)

\* C17: show_times(recompute=True) calls compute on exactly the parts that
\* have a bound solver, so compute's Precondition failure is not reached
\* through it; show_times(recompute=False) runs no solver and changes no
\* part's answer, func or elapsed_time.
C17_RecomputeBound == [][C17_State' /\ C17_Frame]_vars

\* A finished recompute that computed part 1 (bound) and not part 2.
C17_Witness ==
  /\ Reporting
  /\ show.done
  /\ show.recompute
  /\ show.computed = {<<5, 1>>}
  /\ HasPart(5, 2)
  /\ Part(5, 2).func = None
  /\ call.runs >= 1

\* A finished report without recompute over a part that has a solver.
C17_WitnessNoRecompute ==
  /\ Reporting
  /\ show.done
  /\ ~show.recompute
  /\ Bound # {}
  /\ show.computed = {}

\* --------------------------------------------------------------------- C18
\* C18: a part's recorded answer is write-once.  Over the steps of verify,
\* compute and show_times (every step but the construction of a new Puzzle
\* for the day), with the backend enabled or not, an answer that holds a
\* value keeps that value: it is neither changed nor reset to unset.
C18_AnswerWriteOnce ==
  [][\A day \in DOMAIN puzzles : \A part \in DOMAIN puzzles[day].parts :
       \/ call'.op = "puzzle" /\ call'.day = day
       \/ /\ day \in DOMAIN puzzles'
          /\ part \in DOMAIN puzzles'[day].parts
          /\ (puzzles[day].parts[part].answer # None
                => puzzles'[day].parts[part].answer = puzzles[day].parts[part].answer)]_vars

\* An answer the backend confirmed earlier in the behaviour has met a
\* different result in the recompute of show_times, and is still there.
C18_Witness ==
  /\ Recomputing
  /\ advent.use_aocd
  /\ answered[<<call.day, call.part>>]
  /\ \E q \in Parts : ~answered[<<call.day, q>>]
  /\ err.what = "AnswerMismatch"
  /\ err.actual = Some(<<"1", "2">>)
  /\ ThePart.answer = Some(<<"7">>)

\* --------------------------------------------------------------------- C19
\* C19: verify binds the solver before running it, so a verify that passed
\* the naming check and then failed in compute leaves the part bound to
\* the solver it was given, whatever was bound before; the recompute of a
\* later show_times runs the bound solver, and when that fails show_times
\* ends there with the error: the line of that day is not printed, nor
\* the grand total.
C19_BoundThenAborts ==
  /\ (/\ call.op = "verify"
      /\ OnPart
      /\ err.what # "NamingMismatch") => ThePart.func = call.arg
  /\ Recomputing =>
       /\ ThePart.func = call.func0
       /\ call.func0 # None
       /\ <<call.day, call.part>> \in show.computed
       /\ err # NoError =>
            /\ pc = "idle"
            /\ err.what \in {"SolverRaised", "TypeMismatch", "AnswerMismatch", "EmptyMin"}
            /\ ~show.done
            /\ show.day = call.day
            /\ call.day \notin LineDays

\* A verify that failed with a result differing from the stored answer,
\* on a part that was bound to another solver before.
C19_WitnessRebound ==
  /\ call.op = "verify"
  /\ OnPart
  /\ err.what = "AnswerMismatch"
  /\ call.func0 # None
  /\ call.func0 # call.arg
  /\ ThePart.func = call.arg

\* The solver that made verify fail has failed again in the recompute of
\* show_times, which ended without a line and without the total.
C19_Witness ==
  /\ Recomputing
  /\ pc = "idle"
  /\ err.what = "SolverRaised"
  /\ Val(ThePart.func).beh = {Raises}
  /\ ThePart.elapsed_time = NegZero
  /\ show.lines = <<>>
  /\ ~show.done

\* --------------------------------------------------------------------- C20
\* The call on a part was made with repeat = 0: by verify (past the naming
\* check), by compute on a part with a bound solver, or by the recompute of
\* a show_times(recompute=True, repeat=0).
ZeroRepeat ==
  /\ OnPart
  /\ ThePart.func # None
  /\ \/ call.op = "verify" /\ call.repeat = 0 /\ err.what # "NamingMismatch"
     \/ call.op = "compute" /\ call.caller = "" /\ call.repeat = 0 /\ call.func0 # None
     \/ Recomputing /\ show.repeat = 0

\* C20: with repeat = 0 the solver is never invoked, the call fails with
\* the error of min() of no durations, and the part's answer and
\* elapsed_time are left as they were.
C20_ZeroRepeatFails ==
  ZeroRepeat =>
    /\ call.runs = 0
    /\ call.elapsed_times = <<>>
    /\ pc \in {"loop", "idle"}
    /\ pc = "idle" => (err.exc = "ValueError" /\ err.what = "EmptyMin")
    /\ pc = "loop" => err = NoError
    /\ ThePart.answer = call.answer0
    /\ ThePart.elapsed_time = call.elapsed0
    /\ out = <<>>
    /\ Recomputing => (~show.done /\ call.day \notin LineDays)

\* show_times(recompute=True, repeat=0) has failed on a part that a
\* verify had timed: its time and answer are still there.
C20_Witness ==
  /\ ZeroRepeat
  /\ Recomputing
  /\ pc = "idle"
  /\ err.what = "EmptyMin"
  /\ ThePart.elapsed_time = Secs(1)
  /\ ThePart.answer = Some(<<"7">>)

\* verify(part, f, repeat=0) has failed, the solver bound and never run.
C20_WitnessVerify ==
  /\ ZeroRepeat
  /\ call.op = "verify"
  /\ pc = "idle"
  /\ err.what = "EmptyMin"
  /\ call.func0 = None
  /\ ThePart.elapsed_time = NegZero
====
